---- MODULE Spec2Model ----
(***************************************************************************)
(* Model of the Uniswap-V3 position simulator of univ3api:                 *)
(*   PositionUtil      (utils.py)       range math, liquidity sizing       *)
(*   PositionInstance  (simulation.py)  a position with fees and logs      *)
(*   PoolSimiulation   (simulation.py)  wallet, registry, pool clock, run  *)
(*                                                                         *)
(* Numbers.  The program computes with Python floats.  The model computes  *)
(* with exact rationals: a square-root price is a numerator over           *)
(* PRICE_FACTOR, a liquidity is a record [n, d] meaning n/d, and int(x) is *)
(* truncation toward zero of the exact quotient.  Floating-point rounding  *)
(* error is outside the model.  1.0001 ** (tick/2) is tabulated for the    *)
(* ticks the model uses (SqrtPriceOfTick).                                 *)
(***************************************************************************)
EXTENDS Integers, Sequences, FiniteSets, TLC

(***************************************************************************)
(* Bounds of the model.                                                    *)
(***************************************************************************)
MaxOps == 3
MaxLen == 2

\* PoolSimiulation.PRICE_FACTOR = 1 << 96; the model keeps the fixed-point
\* encoding sqrt_price = sqrt_price_x96 / PRICE_FACTOR with two fractional
\* bits instead of 96.
PRICE_FACTOR == 2 ^ 2

\* Tick spacing used by mint's alignment and PositionUtil's assertions.
TickSpacing == 60

\* math.inf in cal_liquidity_sqrt: larger than every liquidity of the model.
Inf == 1000000

(***************************************************************************)
(* Exact arithmetic helpers.                                               *)
(***************************************************************************)
Abs(x) == IF x < 0 THEN -x ELSE x

\* int(num/den) of Python: truncation toward zero; den # 0.
Trunc(num, den) ==
    LET q == Abs(num) \div Abs(den)
    IN  IF (num < 0) = (den < 0) THEN q ELSE -q

RECURSIVE Gcd(_, _)
Gcd(a, b) == IF b = 0 THEN a ELSE Gcd(b, a % b)

\* the rational n/d in lowest terms, d > 0
Rat(n, d) ==
    LET g == Gcd(Abs(n), Abs(d))
        s == IF d < 0 THEN -1 ELSE 1
    IN  [n |-> s * (n \div g), d |-> s * (d \div g)]

RatInt(i) == [n |-> i, d |-> 1]
RatAdd(a, b) == Rat(a.n * b.d + b.n * a.d, a.d * b.d)
RatSub(a, b) == Rat(a.n * b.d - b.n * a.d, a.d * b.d)
RatMul(a, b) == Rat(a.n * b.n, a.d * b.d)

\* 1.0001 ** (tick / 2) as a numerator over PRICE_FACTOR, for the aligned
\* ticks of the ranges, 1.0001 ** (-6930) ~ 0.5, 1.0001 ** 0 = 1,
\* 1.0001 ** 6930 ~ 2, and for the ticks of the swap events (0.75, 1.5, 2.25).
SqrtPriceOfTick(t) ==
    CASE t = -13860 -> 2
      [] t = -5754  -> 3
      [] t = 0      -> 4
      [] t = 8109   -> 6
      [] t = 13860  -> 8
      [] t = 16219  -> 9

\* 1.0001 ** tick as a numerator over PRICE_FACTOR * PRICE_FACTOR
TickPrice(t) == SqrtPriceOfTick(t) * SqrtPriceOfTick(t)

(***************************************************************************)
(* PositionUtil: owed amounts and liquidity sizing.                        *)
(* A position p is a record; p.low_price_sqrt and p.high_price_sqrt are    *)
(* numerators over PRICE_FACTOR, p.liquidity is a rational.                *)
(***************************************************************************)
\* int(liquidity * (low_price_sqrt_r - high_price_sqrt_r))
Amount0Edge(liq, lo, hi) == Trunc(liq.n * PRICE_FACTOR * (hi - lo), liq.d * lo * hi)
\* int(liquidity * (high_price_sqrt - low_price_sqrt))
Amount1Edge(liq, lo, hi) == Trunc(liq.n * (hi - lo), liq.d * PRICE_FACTOR)

update_liquidity(p, liq) ==
    [p EXCEPT !.liquidity = liq,
              !.amount0_edge = Amount0Edge(liq, p.low_price_sqrt, p.high_price_sqrt),
              !.amount1_edge = Amount1Edge(liq, p.low_price_sqrt, p.high_price_sqrt)]

amount0_psqrt(p, psqrt) ==
    IF psqrt <= p.low_price_sqrt THEN p.amount0_edge
    ELSE IF psqrt < p.high_price_sqrt
         THEN Trunc(p.liquidity.n * PRICE_FACTOR * (p.high_price_sqrt - psqrt),
                    p.liquidity.d * psqrt * p.high_price_sqrt)
         ELSE 0

\* mutant of amount1_psqrt: above the range the amount keeps growing
amount1_psqrt_NoClamp(p, psqrt) ==
    IF psqrt <= p.low_price_sqrt THEN 0
    ELSE Trunc(p.liquidity.n * (psqrt - p.low_price_sqrt),
               p.liquidity.d * PRICE_FACTOR)

amount1_psqrt(p, psqrt) ==
    IF psqrt <= p.low_price_sqrt THEN 0
    ELSE IF psqrt < p.high_price_sqrt
         THEN Trunc(p.liquidity.n * (psqrt - p.low_price_sqrt),
                    p.liquidity.d * PRICE_FACTOR)
         ELSE p.amount1_edge

\* mutant of amount0_t: inside the range the amount is rounded up
amount0_t_RoundsUp(p, tick) ==
    IF tick <= p.tick_lower THEN p.amount0_edge
    ELSE IF tick < p.tick_upper
         THEN Trunc(p.liquidity.n * PRICE_FACTOR
                      * (p.high_price_sqrt - SqrtPriceOfTick(tick)),
                    p.liquidity.d * SqrtPriceOfTick(tick) * p.high_price_sqrt) + 1
         ELSE 0

\* PositionUtil.amount0_t: int(liquidity * (1.0001 ** (-tick/2) - high_price_sqrt_r))
amount0_t(p, tick) ==
    IF tick <= p.tick_lower THEN p.amount0_edge
    ELSE IF tick < p.tick_upper
         THEN Trunc(p.liquidity.n * PRICE_FACTOR
                      * (p.high_price_sqrt - SqrtPriceOfTick(tick)),
                    p.liquidity.d * SqrtPriceOfTick(tick) * p.high_price_sqrt)
         ELSE 0

\* PositionUtil.amount1_t: int(liquidity * (1.0001 ** (tick/2) - low_price_sqrt))
amount1_t(p, tick) ==
    IF tick <= p.tick_lower THEN 0
    ELSE IF tick < p.tick_upper
         THEN Trunc(p.liquidity.n * (SqrtPriceOfTick(tick) - p.low_price_sqrt),
                    p.liquidity.d * PRICE_FACTOR)
         ELSE p.amount1_edge

CalFail(e) == [err |-> e, l |-> 0, amt0 |-> 0, amt1 |-> 0]
CalOk(l, a0, a1) == [err |-> "", l |-> l, amt0 |-> a0, amt1 |-> a1]

\* PositionUtil.cal_liquidity_sqrt; all three arguments sqrt_* are
\* numerators over PRICE_FACTOR.  The result carries the exception the
\* Python call raises, or "" and the returned triple.
cal_liquidity_sqrt(sqrt_price, sqrt_lower, sqrt_upper, amt0, amt1) ==
    IF sqrt_price <= sqrt_lower THEN
        IF amt0 = 0 THEN CalFail("AssertionError:amt0")
        ELSE IF sqrt_upper = sqrt_lower THEN CalFail("ZeroDivisionError")
        ELSE CalOk(Trunc(amt0 * sqrt_upper * sqrt_lower,
                         PRICE_FACTOR * (sqrt_upper - sqrt_lower)), amt0, 0)
    ELSE IF sqrt_price <= sqrt_upper THEN
        IF amt0 = 0 /\ amt1 = 0 THEN CalFail("AssertionError:amt0 or amt1")
        ELSE IF amt0 # 0 /\ sqrt_upper = sqrt_price THEN CalFail("ZeroDivisionError")
        ELSE
          LET l0 == IF amt0 # 0
                    THEN Trunc(amt0 * sqrt_upper * sqrt_price,
                               PRICE_FACTOR * (sqrt_upper - sqrt_price))
                    ELSE Inf
              l1 == IF amt1 # 0
                    THEN Trunc(amt1 * PRICE_FACTOR, sqrt_price - sqrt_lower)
                    ELSE Inf
          IN  IF l0 < l1
              THEN CalOk(l0, amt0, Trunc(l0 * (sqrt_price - sqrt_lower), PRICE_FACTOR))
              ELSE CalOk(l1, Trunc(l1 * PRICE_FACTOR * (sqrt_upper - sqrt_price),
                                   sqrt_upper * sqrt_price), amt1)
    ELSE
        IF amt1 = 0 THEN CalFail("AssertionError:amt1")
        ELSE IF sqrt_upper = sqrt_lower THEN CalFail("ZeroDivisionError")
        ELSE CalOk(Trunc(amt1 * PRICE_FACTOR, sqrt_upper - sqrt_lower), 0, amt1)

\* math.sqrt of a price; prices are numerators over PRICE_FACTOR * PRICE_FACTOR
\* and the model only takes the root of squares of sqrt-price numerators
MathSqrt(x) == CHOOSE r \in 0..x : r * r = x

\* mutant of cal_liquidity: the assertion of the third case is missing
cal_liquidity_NoAssertAbove(cprice, upper, lower, amt0, amt1) ==
    LET sqrt_price == MathSqrt(cprice)
        sqrt_upper == MathSqrt(upper)
        sqrt_lower == MathSqrt(lower)
    IN  IF cprice <= lower THEN
            IF amt0 = 0 THEN CalFail("AssertionError:amt0")
            ELSE IF sqrt_upper = sqrt_lower THEN CalFail("ZeroDivisionError")
            ELSE CalOk(Trunc(amt0 * sqrt_upper * sqrt_lower,
                             PRICE_FACTOR * (sqrt_upper - sqrt_lower)), amt0, 0)
        ELSE IF cprice <= upper THEN
            IF amt0 = 0 /\ amt1 = 0 THEN CalFail("AssertionError:amt0 or amt1")
            ELSE IF amt0 # 0 /\ sqrt_upper = sqrt_price THEN CalFail("ZeroDivisionError")
            ELSE
              LET l0 == IF amt0 # 0
                        THEN Trunc(amt0 * sqrt_upper * sqrt_price,
                                   PRICE_FACTOR * (sqrt_upper - sqrt_price))
                        ELSE Inf
                  l1 == IF amt1 # 0
                        THEN Trunc(amt1 * PRICE_FACTOR, sqrt_price - sqrt_lower)
                        ELSE Inf
              IN  IF l0 < l1
                  THEN CalOk(l0, amt0, Trunc(l0 * (sqrt_price - sqrt_lower), PRICE_FACTOR))
                  ELSE CalOk(l1, Trunc(l1 * PRICE_FACTOR * (sqrt_upper - sqrt_price),
                                       sqrt_upper * sqrt_price), amt1)
        ELSE
            IF sqrt_upper = sqrt_lower THEN CalFail("ZeroDivisionError")
            ELSE CalOk(Trunc(amt1 * PRICE_FACTOR, sqrt_upper - sqrt_lower), 0, amt1)

\* PositionUtil.cal_liquidity: the three cases are chosen on the prices, the
\* amounts are computed on their math.sqrt.  Note the order (upper, lower).
cal_liquidity(cprice, upper, lower, amt0, amt1) ==
    LET sqrt_price == MathSqrt(cprice)
        sqrt_upper == MathSqrt(upper)
        sqrt_lower == MathSqrt(lower)
    IN  IF cprice <= lower THEN
            IF amt0 = 0 THEN CalFail("AssertionError:amt0")
            ELSE IF sqrt_upper = sqrt_lower THEN CalFail("ZeroDivisionError")
            ELSE CalOk(Trunc(amt0 * sqrt_upper * sqrt_lower,
                             PRICE_FACTOR * (sqrt_upper - sqrt_lower)), amt0, 0)
        ELSE IF cprice <= upper THEN
            IF amt0 = 0 /\ amt1 = 0 THEN CalFail("AssertionError:amt0 or amt1")
            ELSE IF amt0 # 0 /\ sqrt_upper = sqrt_price THEN CalFail("ZeroDivisionError")
            ELSE
              LET l0 == IF amt0 # 0
                        THEN Trunc(amt0 * sqrt_upper * sqrt_price,
                                   PRICE_FACTOR * (sqrt_upper - sqrt_price))
                        ELSE Inf
                  l1 == IF amt1 # 0
                        THEN Trunc(amt1 * PRICE_FACTOR, sqrt_price - sqrt_lower)
                        ELSE Inf
              IN  IF l0 < l1
                  THEN CalOk(l0, amt0, Trunc(l0 * (sqrt_price - sqrt_lower), PRICE_FACTOR))
                  ELSE CalOk(l1, Trunc(l1 * PRICE_FACTOR * (sqrt_upper - sqrt_price),
                                       sqrt_upper * sqrt_price), amt1)
        ELSE
            IF amt1 = 0 THEN CalFail("AssertionError:amt1")
            ELSE IF sqrt_upper = sqrt_lower THEN CalFail("ZeroDivisionError")
            ELSE CalOk(Trunc(amt1 * PRICE_FACTOR, sqrt_upper - sqrt_lower), 0, amt1)

(***************************************************************************)
(* State.                                                                  *)
(***************************************************************************)
VARIABLES
    amount0, amount1,          \* PoolSimiulation wallet balances
    positions,                 \* registry: token id -> PositionInstance
    valid_positions,           \* keys of the valid_positions dict
    next_token_id,             \* PoolSimiulation._next_token_id
    fee,                       \* PoolFee value (fee.value)
    tick, sqrt_price_x96, sqrt_price, block_number, timestamp, L,
    wallet_logs,               \* list of WalletLog
    last,                      \* outcome of the latest call: operation, exception, result
    ops,                       \* number of calls made so far
    swaps, time_data,          \* run(): the two input lists
    swap_events, time_list,    \* run(): number of items each iterator has yielded
    swap, data,                \* run(): the pending item of each stream
    pc,                        \* run(): position in the loop
    calls,                     \* run(): handlers invoked so far, in call order
    trail,                     \* progress of a mint / full decrease / collect sequence
    calc                       \* a sizing call: its arguments and its results

simVars == <<amount0, amount1, positions, valid_positions, next_token_id, fee,
             tick, sqrt_price_x96, sqrt_price, block_number, timestamp, L,
             wallet_logs>>
runVars == <<swaps, time_data, swap_events, time_list, swap, data, pc, calls>>
auxVars == <<trail, calc>>
vars == <<amount0, amount1, positions, valid_positions, next_token_id, fee,
          tick, sqrt_price_x96, sqrt_price, block_number, timestamp, L,
          wallet_logs, last, ops,
          swaps, time_data, swap_events, time_list, swap, data, pc, calls,
          trail, calc>>

(***************************************************************************)
(* Inputs.                                                                 *)
(***************************************************************************)
\* PoolFee values a simulator is constructed with (hundredths of a bip)
PoolFeeValues == {10000}
\* constructor arguments amount0, amount1
InitAmount0 == {200}
InitAmount1 == {0, 200}
\* mint's tick arguments before alignment
LowerTicks == {-13860, 0, 13860}
UpperTicks == {0, 13899}
\* amount arguments of mint and increase_liquidity
Amounts0 == {0, 100, 300}
Amounts1 == {0, 1, 300}
\* decrease_liquidity's (liquidity, pct); liquidity 0 stands for None
DecreaseArgs == {<<0, Rat(1, 1)>>, <<0, Rat(1, 2)>>, <<0, Rat(0, 1)>>,
                 <<0, Rat(3, 2)>>, <<1, Rat(1, 1)>>, <<1000, Rat(1, 1)>>}
\* swap's (amount, pct)
SwapArgs == {<<0, Rat(0, 1)>>, <<50, Rat(0, 1)>>, <<0, Rat(1, 2)>>,
             <<40, Rat(1, 2)>>, <<300, Rat(0, 1)>>, <<199, Rat(0, 1)>>}
\* swap event records
SwapEvent(ts) ==
    CASE ts = 1 -> [blockNumber |-> 11, timestamp |-> 1, tick |-> -5754,
                    sqrtPriceX96 |-> 3, liquidity |-> 100]
      [] ts = 2 -> [blockNumber |-> 12, timestamp |-> 2, tick |-> 8109,
                    sqrtPriceX96 |-> 6, liquidity |-> 0]
      [] ts = 3 -> [blockNumber |-> 13, timestamp |-> 3, tick |-> 16219,
                    sqrtPriceX96 |-> 9, liquidity |-> 100]
Timestamps == {1, 2, 3}
\* square-root prices handed to the pure functions (numerators over PRICE_FACTOR)
MaxSqrtPrice == 10
SqrtPrices == 0..MaxSqrtPrice
SwapEvents == {SwapEvent(ts) : ts \in Timestamps}

NoCall == [op |-> "", err |-> "", token_id |-> 0, amt0 |-> 0, amt1 |-> 0]
Call(op, err, id, a0, a1) ==
    [op |-> op, err |-> err, token_id |-> id, amt0 |-> a0, amt1 |-> a1]

(***************************************************************************)
(* PositionInstance.                                                       *)
(***************************************************************************)
LiquidityLog(block, ts, liq) == [block |-> block, timestamp |-> ts, liquidity |-> liq]
PositionBalanceLog(block, ts, a0, a1, f0, f1) ==
    [block |-> block, timestamp |-> ts, amount0 |-> a0, amount1 |-> a1,
     fee0 |-> f0, fee1 |-> f1]
WalletLog(block, ts, a0, a1) ==
    [block |-> block, timestamp |-> ts, amount0 |-> a0, amount1 |-> a1]

\* PositionInstance.__init__ after PositionUtil.__init__'s assertions passed
PositionInstance(l, tick_lower, tick_upper, fee_rate, token_id) ==
    update_liquidity(
        [token_id |-> token_id, tick_lower |-> tick_lower, tick_upper |-> tick_upper,
         low_price_sqrt |-> SqrtPriceOfTick(tick_lower),
         high_price_sqrt |-> SqrtPriceOfTick(tick_upper),
         liquidity |-> RatInt(0), amount0_edge |-> 0, amount1_edge |-> 0,
         fee_rate |-> fee_rate, fee0 |-> 0, fee1 |-> 0,
         balance |-> <<>>, history |-> <<>>],
        RatInt(l))

\* mutant of log_history: nothing is appended
log_history_Missing(p, block, ts) == p

log_history(p, block, ts) ==
    [p EXCEPT !.history = Append(@, LiquidityLog(block, ts, p.liquidity))]

\* mutant of log_balance: the entry carries no fees
log_balance_NoFees(p, block, ts, psqrt, f0, f1) ==
    [p EXCEPT !.balance = Append(@, PositionBalanceLog(block, ts,
                              amount0_psqrt(p, psqrt), amount1_psqrt(p, psqrt), 0, 0))]

log_balance(p, block, ts, psqrt, f0, f1) ==
    [p EXCEPT !.balance = Append(@, PositionBalanceLog(block, ts,
                              amount0_psqrt(p, psqrt), amount1_psqrt(p, psqrt), f0, f1))]

\* PoolSimiulation.record_wallet: the log after appending a snapshot
record_wallet(a0, a1) ==
    Append(wallet_logs, WalletLog(block_number, timestamp, a0, a1))

\* mutant of position_swap: the running totals are returned, not the increments
position_swap_ReturnsTotal(p, from_sqrt_price, to_sqrt_price) ==
    IF to_sqrt_price > from_sqrt_price
    THEN LET f1 == Trunc((amount1_psqrt(p, to_sqrt_price)
                           - amount1_psqrt(p, from_sqrt_price)) * p.fee_rate, 1000000)
         IN  [pos |-> [p EXCEPT !.fee1 = @ + f1], fee0 |-> p.fee0, fee1 |-> p.fee1 + f1]
    ELSE LET f0 == Trunc((amount0_psqrt(p, to_sqrt_price)
                           - amount0_psqrt(p, from_sqrt_price)) * p.fee_rate, 1000000)
         IN  [pos |-> [p EXCEPT !.fee0 = @ + f0], fee0 |-> p.fee0 + f0, fee1 |-> p.fee1]

\* PositionInstance.swap: the position after the accrual and the returned pair
position_swap(p, from_sqrt_price, to_sqrt_price) ==
    IF to_sqrt_price > from_sqrt_price
    THEN LET f1 == Trunc((amount1_psqrt(p, to_sqrt_price)
                           - amount1_psqrt(p, from_sqrt_price)) * p.fee_rate, 1000000)
         IN  [pos |-> [p EXCEPT !.fee1 = @ + f1], fee0 |-> 0, fee1 |-> f1]
    ELSE LET f0 == Trunc((amount0_psqrt(p, to_sqrt_price)
                           - amount0_psqrt(p, from_sqrt_price)) * p.fee_rate, 1000000)
         IN  [pos |-> [p EXCEPT !.fee0 = @ + f0], fee0 |-> f0, fee1 |-> 0]

\* mutant of is_active: the liquidity is not looked at
is_active_RangeOnly(p, psqrt) ==
    p.low_price_sqrt <= psqrt /\ psqrt <= p.high_price_sqrt

\* PositionInstance.is_active
is_active(p, psqrt) ==
    p.liquidity.n # 0 /\ p.low_price_sqrt <= psqrt /\ psqrt <= p.high_price_sqrt

(***************************************************************************)
(* PoolSimiulation.                                                        *)
(***************************************************************************)
SimInit ==
    /\ amount0 \in InitAmount0
    /\ amount1 \in InitAmount1
    /\ positions = <<>>
    /\ valid_positions = {}
    /\ next_token_id = 0
    /\ fee \in PoolFeeValues
    /\ tick = 0
    /\ sqrt_price_x96 = 0
    /\ sqrt_price = 0
    /\ block_number = 0
    /\ timestamp = 0
    /\ L = 0
    /\ wallet_logs = <<>>
    /\ last = NoCall
    /\ ops = 0

RunIdle ==
    /\ swaps = <<>>
    /\ time_data = <<>>
    /\ swap_events = 0
    /\ time_list = 0
    /\ swap = <<>>
    /\ data = <<>>
    /\ pc = "idle"
    /\ calls = <<>>

\* no call sequence under way, no sizing call made
NoTrail == [stage |-> 0, token_id |-> 0, amount0 |-> 0, amount1 |-> 0]
NoCalc == [ran |-> {}, sqrt_price |-> 0, sqrt_lower |-> 0, sqrt_upper |-> 0,
           amt0 |-> 0, amt1 |-> 0, by_sqrt |-> CalFail(""), by_price |-> CalFail("")]
AuxIdle ==
    /\ trail = NoTrail
    /\ calc = NoCalc

Init == SimInit /\ RunIdle /\ AuxIdle

\* a call that raised err before changing any state
Raise(op, err, id) ==
    /\ last' = Call(op, err, id, 0, 0)
    /\ UNCHANGED simVars

\* lower - lower % 60
AlignTick(t) == t - (t % TickSpacing)

\* mutant of MintWalletError: the assertion on amount1 is missing
MintWalletError_Amount0Only(a0, a1) ==
    IF amount0 < a0 THEN "AssertionError:amount0" ELSE ""

\* mint fails the wallet assertions of lines 256-257
MintWalletError(a0, a1) ==
    IF amount0 < a0 THEN "AssertionError:amount0"
    ELSE IF amount1 < a1 THEN "AssertionError:amount1"
    ELSE ""

\* mutant of NextTokenId: the property returns the counter without advancing it
NextTokenId_NoIncrement == IF next_token_id = 0 THEN 1 ELSE next_token_id

\* the next_token_id property: the counter after the read
NextTokenId == next_token_id + 1

Mint(lower0, upper0, a0, a1) ==
    LET lower == AlignTick(lower0)
        upper == AlignTick(upper0)
        werr  == MintWalletError(a0, a1)
        cal   == cal_liquidity_sqrt(sqrt_price, SqrtPriceOfTick(lower),
                                    SqrtPriceOfTick(upper), a0, a1)
        id    == NextTokenId
    IN  IF werr # "" THEN Raise("mint", werr, 0)
        ELSE IF cal.err # "" THEN Raise("mint", cal.err, 0)
        ELSE IF ~(lower < upper)
        THEN \* the token id was read before PositionUtil.__init__ asserted
             /\ next_token_id' = id
             /\ last' = Call("mint", "AssertionError:tick_lower < tick_upper", 0, 0, 0)
             /\ UNCHANGED <<amount0, amount1, positions, valid_positions, fee,
                            tick, sqrt_price_x96, sqrt_price, block_number,
                            timestamp, L, wallet_logs>>
        ELSE LET p0   == PositionInstance(cal.l, lower, upper, fee, id)
                 amt0 == amount0_psqrt(p0, sqrt_price)
                 amt1 == amount1_psqrt(p0, sqrt_price)
                 p1   == log_balance(log_history(p0, block_number, timestamp),
                                     block_number, timestamp, sqrt_price, 0, 0)
             IN  /\ next_token_id' = id
                 /\ amount0' = amount0 - amt0
                 /\ amount1' = amount1 - amt1
                 /\ positions' = (id :> p1) @@ positions
                 /\ valid_positions' = valid_positions \cup {id}
                 /\ wallet_logs' = record_wallet(amount0 - amt0, amount1 - amt1)
                 /\ last' = Call("mint", "", id, amt0, amt1)
                 /\ UNCHANGED <<fee, tick, sqrt_price_x96, sqrt_price, block_number,
                                timestamp, L>>

\* mutant of position_increase_liquidity: the requested amounts are returned
position_increase_liquidity_Requested(p, psqrt, a0, a1) ==
    LET cal == cal_liquidity_sqrt(psqrt, p.low_price_sqrt, p.high_price_sqrt, a0, a1)
        q   == update_liquidity(p, RatAdd(p.liquidity, RatInt(cal.l)))
    IN  IF cal.err # "" THEN [err |-> cal.err, pos |-> p, l |-> 0, amt0 |-> 0, amt1 |-> 0]
        ELSE [err |-> "", pos |-> q, l |-> cal.l, amt0 |-> a0, amt1 |-> a1]

\* PositionInstance.increase_liquidity: the exception raised by the sizing,
\* or the position after update_liquidity and the returned triple
position_increase_liquidity(p, psqrt, a0, a1) ==
    LET cal == cal_liquidity_sqrt(psqrt, p.low_price_sqrt, p.high_price_sqrt, a0, a1)
        q   == update_liquidity(p, RatAdd(p.liquidity, RatInt(cal.l)))
    IN  IF cal.err # "" THEN [err |-> cal.err, pos |-> p, l |-> 0, amt0 |-> 0, amt1 |-> 0]
        ELSE [err |-> "", pos |-> q, l |-> cal.l,
              amt0 |-> amount0_psqrt(q, psqrt) - amount0_psqrt(p, psqrt),
              amt1 |-> amount1_psqrt(q, psqrt) - amount1_psqrt(p, psqrt)]

\* mutant of Rollback: the except clause re-raises without restoring
Rollback_Missing(p, org_l) == p

\* the except clause of PoolSimiulation.increase_liquidity (line 295)
Rollback(p, org_l) == update_liquidity(p, org_l)

\* mutant of Revalidate: the position is not put back
Revalidate_Missing(token_id) == valid_positions

\* lines 300-301: a position missing from valid_positions is put back
Revalidate(token_id) == valid_positions \cup {token_id}

IncreaseLiquidity(token_id, a0, a1) ==
    IF token_id \notin DOMAIN positions THEN Raise("increase_liquidity", "KeyError", token_id)
    ELSE
      LET position == positions[token_id]
          org_l    == position.liquidity
          r        == position_increase_liquidity(position, sqrt_price, a0, a1)
      IN  IF r.err # "" THEN Raise("increase_liquidity", r.err, token_id)
          ELSE IF amount0 < r.amt0 \/ amount1 < r.amt1
          THEN /\ positions' = [positions EXCEPT ![token_id] = Rollback(r.pos, org_l)]
               /\ last' = Call("increase_liquidity",
                               IF amount0 < r.amt0 THEN "AssertionError:amount0"
                                                   ELSE "AssertionError:amount1",
                               token_id, 0, 0)
               /\ UNCHANGED <<amount0, amount1, valid_positions, next_token_id, fee,
                              tick, sqrt_price_x96, sqrt_price, block_number,
                              timestamp, L, wallet_logs>>
          ELSE LET p1 == log_balance(log_history(r.pos, block_number, timestamp),
                                     block_number, timestamp, sqrt_price, 0, 0)
               IN  /\ amount0' = amount0 - r.amt0
                   /\ amount1' = amount1 - r.amt1
                   /\ valid_positions' = Revalidate(token_id)
                   /\ positions' = [positions EXCEPT ![token_id] = p1]
                   /\ wallet_logs' = record_wallet(amount0 - r.amt0, amount1 - r.amt1)
                   /\ last' = Call("increase_liquidity", "", token_id, r.amt0, r.amt1)
                   /\ UNCHANGED <<next_token_id, fee, tick, sqrt_price_x96, sqrt_price,
                                  block_number, timestamp, L>>

\* mutant of position_decrease_liquidity: the amounts released are taken from
\* the edge amounts, not from the amounts owed at the current price
position_decrease_liquidity_EdgeAmounts(p, psqrt, liquidity, pct) ==
    IF liquidity = 0 /\ pct.n = 0
    THEN [err |-> "AssertionError:liquidity or pct", pos |-> p, amt0 |-> 0, amt1 |-> 0]
    ELSE IF liquidity = 0 /\ ~(0 < pct.n /\ pct.n <= pct.d)
    THEN [err |-> "AssertionError:0 < pct <= 1", pos |-> p, amt0 |-> 0, amt1 |-> 0]
    ELSE LET dl == IF liquidity = 0 THEN RatMul(p.liquidity, pct) ELSE RatInt(liquidity)
             q  == update_liquidity(p, RatSub(p.liquidity, dl))
         IN  [err |-> "", pos |-> q,
              amt0 |-> p.amount0_edge - q.amount0_edge,
              amt1 |-> p.amount1_edge - q.amount1_edge]

\* PositionInstance.decrease_liquidity; liquidity = 0 stands for None
position_decrease_liquidity(p, psqrt, liquidity, pct) ==
    IF liquidity = 0 /\ pct.n = 0
    THEN [err |-> "AssertionError:liquidity or pct", pos |-> p, amt0 |-> 0, amt1 |-> 0]
    ELSE IF liquidity = 0 /\ ~(0 < pct.n /\ pct.n <= pct.d)
    THEN [err |-> "AssertionError:0 < pct <= 1", pos |-> p, amt0 |-> 0, amt1 |-> 0]
    ELSE LET dl == IF liquidity = 0 THEN RatMul(p.liquidity, pct) ELSE RatInt(liquidity)
             q  == update_liquidity(p, RatSub(p.liquidity, dl))
         IN  [err |-> "", pos |-> q,
              amt0 |-> amount0_psqrt(p, psqrt) - amount0_psqrt(q, psqrt),
              amt1 |-> amount1_psqrt(p, psqrt) - amount1_psqrt(q, psqrt)]

DecreaseLiquidity(token_id, liquidity, pct) ==
    IF token_id \notin DOMAIN positions THEN Raise("decrease_liquidity", "KeyError", token_id)
    ELSE
      LET r == position_decrease_liquidity(positions[token_id], sqrt_price, liquidity, pct)
      IN  IF r.err # "" THEN Raise("decrease_liquidity", r.err, token_id)
          ELSE /\ amount0' = amount0 + r.amt0
               /\ amount1' = amount1 + r.amt1
               /\ valid_positions' = IF r.pos.liquidity.n = 0
                                     THEN valid_positions \ {token_id}
                                     ELSE valid_positions
               /\ positions' = [positions EXCEPT
                                  ![token_id] = log_history(r.pos, block_number, timestamp)]
               /\ wallet_logs' = record_wallet(amount0 + r.amt0, amount1 + r.amt1)
               /\ last' = Call("decrease_liquidity", "", token_id, r.amt0, r.amt1)
               /\ UNCHANGED <<next_token_id, fee, tick, sqrt_price_x96, sqrt_price,
                              block_number, timestamp, L>>

\* mutant of position_collect: the counters are returned but not reset
position_collect_KeepsFees(p) == p

\* PositionInstance.collect
position_collect(p) == [p EXCEPT !.fee0 = 0, !.fee1 = 0]

\* mutant of Collect: the balance log gets the collected amounts, not negated
Collect_LogsCollected(token_id) ==
    IF token_id \notin DOMAIN positions THEN Raise("collect", "KeyError", token_id)
    ELSE
      LET position == positions[token_id]
          amt0 == position.fee0
          amt1 == position.fee1
      IN  /\ amount0' = amount0 + amt0
          /\ amount1' = amount1 + amt1
          /\ positions' = [positions EXCEPT ![token_id] =
                              log_balance(position_collect(position), block_number,
                                          timestamp, sqrt_price, amt0, amt1)]
          /\ wallet_logs' = record_wallet(amount0 + amt0, amount1 + amt1)
          /\ last' = Call("collect", "", token_id, amt0, amt1)
          /\ UNCHANGED <<valid_positions, next_token_id, fee, tick, sqrt_price_x96,
                         sqrt_price, block_number, timestamp, L>>

Collect(token_id) ==
    IF token_id \notin DOMAIN positions THEN Raise("collect", "KeyError", token_id)
    ELSE
      LET position == positions[token_id]
          amt0 == position.fee0
          amt1 == position.fee1
      IN  /\ amount0' = amount0 + amt0
          /\ amount1' = amount1 + amt1
          /\ positions' = [positions EXCEPT ![token_id] =
                              log_balance(position_collect(position), block_number,
                                          timestamp, sqrt_price, -amt0, -amt1)]
          /\ wallet_logs' = record_wallet(amount0 + amt0, amount1 + amt1)
          /\ last' = Call("collect", "", token_id, amt0, amt1)
          /\ UNCHANGED <<valid_positions, next_token_id, fee, tick, sqrt_price_x96,
                         sqrt_price, block_number, timestamp, L>>

\* swap_event.get("timestamp", 0)
EventTimestamp(ev) == IF "timestamp" \in DOMAIN ev THEN ev.timestamp ELSE 0

\* PoolSimiulation.init
InitPool(ev) ==
    /\ sqrt_price_x96' = ev.sqrtPriceX96
    /\ tick' = ev.tick
    /\ block_number' = ev.blockNumber
    /\ sqrt_price' = ev.sqrtPriceX96
    /\ timestamp' = EventTimestamp(ev)
    /\ L' = ev.liquidity
    /\ last' = Call("init", "", 0, 0, 0)
    /\ UNCHANGED <<amount0, amount1, positions, valid_positions, next_token_id, fee,
                   wallet_logs>>

\* PoolSimiulation.on_swap: the effect on the simulator's own fields
on_swap(ev) ==
    LET former_price == sqrt_price
        ts == EventTimestamp(ev)
    IN  /\ sqrt_price_x96' = ev.sqrtPriceX96
        /\ tick' = ev.tick
        /\ block_number' = ev.blockNumber
        /\ L' = ev.liquidity
        /\ sqrt_price' = ev.sqrtPriceX96
        /\ timestamp' = ts
        /\ positions' = [id \in DOMAIN positions |->
             IF id \in valid_positions
             THEN LET r == position_swap(positions[id], former_price, ev.sqrtPriceX96)
                  IN  log_balance(r.pos, ev.blockNumber, ts, ev.sqrtPriceX96,
                                  r.fee0, r.fee1)
             ELSE positions[id]]
        /\ wallet_logs' = Append(wallet_logs,
                                 WalletLog(ev.blockNumber, ts, amount0, amount1))
        /\ UNCHANGED <<amount0, amount1, valid_positions, next_token_id, fee>>

OnSwap(ev) ==
    /\ on_swap(ev)
    /\ last' = Call("on_swap", "", 0, 0, 0)

\* the amount of the other token PoolSimiulation.swap pays out, with the
\* exception its float expression raises
\*   in_token = 1: int(L*(1/sqrt_price - L/(L*sqrt_price + amount)))
\*   in_token = 0: int(L*(sqrt_price - L/(L/sqrt_price + amount)))
SwapOut(in_token, amount) ==
    IF sqrt_price = 0 THEN [err |-> "ZeroDivisionError", out |-> 0]
    ELSE IF in_token = 1
    THEN IF L * sqrt_price + amount * PRICE_FACTOR = 0
         THEN [err |-> "ZeroDivisionError", out |-> 0]
         ELSE [err |-> "",
               out |-> Trunc(L * amount * PRICE_FACTOR * PRICE_FACTOR,
                             sqrt_price * (L * sqrt_price + amount * PRICE_FACTOR))]
    ELSE IF L * PRICE_FACTOR + amount * sqrt_price = 0
         THEN [err |-> "ZeroDivisionError", out |-> 0]
         ELSE [err |-> "",
               out |-> Trunc(L * amount * sqrt_price * sqrt_price,
                             PRICE_FACTOR * (L * PRICE_FACTOR + amount * sqrt_price))]

\* int(amount*(self.fee.value/1e6+1)); amount is an integer, so the integer
\* part of the product is amount itself
TotalAmount(amount) == amount + Trunc(amount * fee, 1000000)

\* assert self.amountN > total_amount (lines 391 and 405)
SwapAffordable(holding, total_amount) == holding > total_amount

\* mutant of SwapArgError: amount and pct together are refused too
SwapArgError_ExactlyOne(amount_arg, pct) ==
    IF (amount_arg = 0) = (pct.n = 0) THEN "ValueError" ELSE ""

\* lines 385-389: "if not amount: if pct: ... else: raise ValueError"
SwapArgError(amount_arg, pct) ==
    IF amount_arg = 0 /\ pct.n = 0 THEN "ValueError" ELSE ""

\* mutant of Swap: the trade moves the pool price
Swap_MovesPrice(in_token, amount_arg, pct) ==
    LET holding == IF in_token = 1 THEN amount1 ELSE amount0
        amount  == IF amount_arg # 0 THEN amount_arg
                   ELSE Trunc(holding * pct.n, pct.d)
        total_amount == TotalAmount(amount)
        r == SwapOut(in_token, amount)
    IN  IF SwapArgError(amount_arg, pct) # ""
        THEN Raise("swap", SwapArgError(amount_arg, pct), 0)
        ELSE IF ~SwapAffordable(holding, total_amount)
        THEN Raise("swap", "AssertionError:amount", 0)
        ELSE IF r.err # "" THEN Raise("swap", r.err, 0)
        ELSE /\ amount0' = IF in_token = 1 THEN amount0 + r.out ELSE amount0 - total_amount
             /\ amount1' = IF in_token = 1 THEN amount1 - total_amount ELSE amount1 + r.out
             /\ last' = Call("swap", "", 0, IF in_token = 1 THEN r.out ELSE 0,
                                            IF in_token = 1 THEN 0 ELSE r.out)
             /\ sqrt_price' = sqrt_price + 1
             /\ sqrt_price_x96' = sqrt_price_x96 + 1
             /\ UNCHANGED <<positions, valid_positions, next_token_id, fee, tick,
                            block_number, timestamp, L, wallet_logs>>

Swap(in_token, amount_arg, pct) ==
    LET holding == IF in_token = 1 THEN amount1 ELSE amount0
        amount  == IF amount_arg # 0 THEN amount_arg
                   ELSE Trunc(holding * pct.n, pct.d)
        total_amount == TotalAmount(amount)
        r == SwapOut(in_token, amount)
    IN  IF SwapArgError(amount_arg, pct) # ""
        THEN Raise("swap", SwapArgError(amount_arg, pct), 0)
        ELSE IF ~SwapAffordable(holding, total_amount)
        THEN Raise("swap", "AssertionError:amount", 0)
        ELSE IF r.err # "" THEN Raise("swap", r.err, 0)
        ELSE /\ amount0' = IF in_token = 1 THEN amount0 + r.out ELSE amount0 - total_amount
             /\ amount1' = IF in_token = 1 THEN amount1 - total_amount ELSE amount1 + r.out
             /\ last' = Call("swap", "", 0, IF in_token = 1 THEN r.out ELSE 0,
                                            IF in_token = 1 THEN 0 ELSE r.out)
             /\ UNCHANGED <<positions, valid_positions, next_token_id, fee, tick,
                            sqrt_price_x96, sqrt_price, block_number, timestamp, L,
                            wallet_logs>>

TokenIds == DOMAIN positions \cup {next_token_id + 1}

\* the sequence mint(..) -> id; decrease_liquidity(id, pct=1); collect(id) made by
\* consecutive successful calls: how far the latest call has taken it, and the
\* wallet as it was before the mint
TrailNext ==
    IF last'.op = "mint" /\ last'.err = ""
    THEN [stage |-> 1, token_id |-> last'.token_id,
          amount0 |-> amount0, amount1 |-> amount1]
    ELSE IF /\ trail.stage = 1
            /\ positions[trail.token_id].liquidity.n > 0
            /\ DecreaseLiquidity(trail.token_id, 0, Rat(1, 1))
    THEN [trail EXCEPT !.stage = 2]
    ELSE IF trail.stage = 2 /\ Collect(trail.token_id)
    THEN [trail EXCEPT !.stage = 3]
    ELSE NoTrail

SimStep(A) ==
    /\ ops < MaxOps
    /\ A
    /\ ops' = ops + 1
    /\ trail' = TrailNext
    /\ UNCHANGED <<runVars, calc>>

DoMint == \E lo \in LowerTicks, up \in UpperTicks, a0 \in Amounts0, a1 \in Amounts1 :
              SimStep(Mint(lo, up, a0, a1))
DoIncreaseLiquidity == \E id \in TokenIds, a0 \in Amounts0, a1 \in Amounts1 :
              SimStep(IncreaseLiquidity(id, a0, a1))
DoDecreaseLiquidity == \E id \in TokenIds, a \in DecreaseArgs :
              SimStep(DecreaseLiquidity(id, a[1], a[2]))
DoCollect == \E id \in TokenIds : SimStep(Collect(id))
DoInitPool == \E ev \in SwapEvents : SimStep(InitPool(ev))
DoOnSwap == \E ev \in SwapEvents : SimStep(OnSwap(ev))
DoSwap == \E t \in {0, 1}, a \in SwapArgs : SimStep(Swap(t, a[1], a[2]))

Next ==
    \/ DoMint
    \/ DoIncreaseLiquidity
    \/ DoDecreaseLiquidity
    \/ DoCollect
    \/ DoInitPool
    \/ DoOnSwap
    \/ DoSwap

Spec == Init /\ [][Next]_vars

(***************************************************************************)
(* The life cycle of positions over one tick range: longer call sequences  *)
(* of mint, increase_liquidity, decrease_liquidity, collect and on_swap.   *)
(***************************************************************************)
MaxLifeOps == 4

\* (amount0, amount1) arguments of mint and increase_liquidity
LifeAmounts == {<<200, 0>>, <<100, 100>>}
\* decrease_liquidity's (liquidity, pct)
LifeDecreaseArgs == {<<0, Rat(1, 1)>>, <<0, Rat(1, 2)>>}

LifeStep(A) ==
    /\ ops < MaxLifeOps
    /\ A
    /\ ops' = ops + 1
    /\ trail' = TrailNext
    /\ UNCHANGED <<runVars, calc>>

LifeMint == \E a \in LifeAmounts : LifeStep(Mint(-13860, 13899, a[1], a[2]))
LifeIncreaseLiquidity == \E id \in DOMAIN positions, a \in LifeAmounts :
              LifeStep(IncreaseLiquidity(id, a[1], a[2]))
LifeDecreaseLiquidity == \E id \in DOMAIN positions, a \in LifeDecreaseArgs :
              LifeStep(DecreaseLiquidity(id, a[1], a[2]))
LifeCollect == \E id \in DOMAIN positions : LifeStep(Collect(id))
LifeOnSwap == \E ev \in SwapEvents : LifeStep(OnSwap(ev))

NextLife ==
    \/ LifeMint
    \/ LifeIncreaseLiquidity
    \/ LifeDecreaseLiquidity
    \/ LifeCollect
    \/ LifeOnSwap

SpecLife == Init /\ [][NextLife]_vars

(***************************************************************************)
(* The sizing functions of PositionUtil as pure functions: the arguments   *)
(* are drawn in the initial state, each function is applied once.          *)
(***************************************************************************)
\* tick ranges with tick_lower < tick_upper
SizingRanges == {r \in {-13860, 0} \X {0, 13860} : r[1] < r[2]}
\* amt0 and amt1; 0 also stands for None
SizingAmounts == {0, 1, 100}

InitSizing ==
    /\ SimInit
    /\ RunIdle
    /\ trail = NoTrail
    /\ \E sp \in SqrtPrices, r \in SizingRanges, a0 \in SizingAmounts, a1 \in SizingAmounts :
           calc = [NoCalc EXCEPT !.sqrt_price = sp,
                                 !.sqrt_lower = SqrtPriceOfTick(r[1]),
                                 !.sqrt_upper = SqrtPriceOfTick(r[2]),
                                 !.amt0 = a0, !.amt1 = a1]

CalLiquiditySqrt ==
    /\ "cal_liquidity_sqrt" \notin calc.ran
    /\ calc' = [calc EXCEPT
                  !.ran = @ \cup {"cal_liquidity_sqrt"},
                  !.by_sqrt = cal_liquidity_sqrt(calc.sqrt_price, calc.sqrt_lower,
                                                 calc.sqrt_upper, calc.amt0, calc.amt1)]
    /\ UNCHANGED <<simVars, last, ops, runVars, trail>>

\* the same call on the prices: price = sqrt_price ** 2
CalLiquidity ==
    /\ "cal_liquidity" \notin calc.ran
    /\ calc' = [calc EXCEPT
                  !.ran = @ \cup {"cal_liquidity"},
                  !.by_price = cal_liquidity(calc.sqrt_price * calc.sqrt_price,
                                             calc.sqrt_upper * calc.sqrt_upper,
                                             calc.sqrt_lower * calc.sqrt_lower,
                                             calc.amt0, calc.amt1)]
    /\ UNCHANGED <<simVars, last, ops, runVars, trail>>

NextSizing ==
    \/ CalLiquiditySqrt
    \/ CalLiquidity

SpecSizing == InitSizing /\ [][NextSizing]_vars

(***************************************************************************)
(* Single calls on one position and on a PriceConverter: the position is   *)
(* drawn in the initial state, the arguments by the call.                  *)
(***************************************************************************)
MaxLiquidity == 12
MaxHalfTick == 5

\* liquidity of the position: small values, and values large enough to earn fees
PureLiquidities == (0..MaxLiquidity) \cup {200, 1000}
\* both uncollected fee counters before the call
PureFees == {0, 5}
\* tick arguments of amount0_t / amount1_t
PureTicks == {-13860, -5754, 0, 8109, 13860, 16219}
\* decimal1 - decimal0 of the converter
DecimalGaps == {-1, 0, 1}

\* 2 * log(10, 1.0001), rounded: a price is represented by twice its logarithm
\* to base 1.0001, so that the factor 10 ** (decimal1 - decimal0) adds
\* DecimalGap * LogTen
LogTen == 46054

\* PriceConverter.price_to_dex on the logarithms: price * factor, factor / price
price_to_dex(log2_price, log2_factor, reverse) ==
    IF ~reverse THEN log2_price + log2_factor ELSE log2_factor - log2_price

\* PriceConverter.price_to_tick: int(math.log(price_to_dex(price, reverse), 1.0001))
price_to_tick(log2_price, log2_factor, reverse) ==
    Trunc(price_to_dex(log2_price, log2_factor, reverse), 2)

InitPure ==
    /\ SimInit
    /\ RunIdle
    /\ trail = NoTrail
    /\ \E l \in PureLiquidities, r \in SizingRanges, f \in PureFees, fr \in PoolFeeValues :
           calc = [op |-> "",
                   position |-> [PositionInstance(l, r[1], r[2], fr, 1)
                                   EXCEPT !.fee0 = f, !.fee1 = f],
                   from |-> 0, to |-> 0, tick |-> 0,
                   after |-> <<>>, fee0 |-> 0, fee1 |-> 0,
                   sizing |-> CalFail(""),
                   log2_dex |-> 0, tick_out |-> 0]

\* position.swap(from_sqrt_price, to_sqrt_price)
PositionSwapCall ==
    /\ calc.op = ""
    /\ \E from \in SqrtPrices, to \in SqrtPrices :
           LET r == position_swap(calc.position, from, to)
           IN  calc' = [calc EXCEPT !.op = "swap", !.from = from, !.to = to,
                                    !.after = r.pos, !.fee0 = r.fee0, !.fee1 = r.fee1]
    /\ UNCHANGED <<simVars, last, ops, runVars, trail>>

\* cal_liquidity(1.0001 ** t, upper, lower, position.amount0_t(t), position.amount1_t(t))
RoundTripCall ==
    /\ calc.op = ""
    /\ \E t \in PureTicks :
           LET p == calc.position
           IN  calc' = [calc EXCEPT
                          !.op = "cal_liquidity", !.tick = t,
                          !.sizing = cal_liquidity(TickPrice(t), TickPrice(p.tick_upper),
                                                   TickPrice(p.tick_lower),
                                                   amount0_t(p, t), amount1_t(p, t))]
    /\ UNCHANGED <<simVars, last, ops, runVars, trail>>

\* PriceConverter(decimal0, decimal1).price_to_tick(price, reverse)
PriceToTickCall ==
    /\ calc.op = ""
    /\ \E h \in (-MaxHalfTick)..MaxHalfTick, d \in DecimalGaps, reverse \in BOOLEAN :
           calc' = [calc EXCEPT
                      !.op = "price_to_tick",
                      !.log2_dex = price_to_dex(h, d * LogTen, reverse),
                      !.tick_out = price_to_tick(h, d * LogTen, reverse)]
    /\ UNCHANGED <<simVars, last, ops, runVars, trail>>

NextPure ==
    \/ PositionSwapCall
    \/ RoundTripCall
    \/ PriceToTickCall

SpecPure == InitPure /\ [][NextPure]_vars

(***************************************************************************)
(* PoolSimiulation.run: the merge of the swap stream and the decision      *)
(* stream.  on_time is the base class's callback, which does nothing.      *)
(***************************************************************************)
\* Python's (a1, a2) <= (b1, b2) on pairs of integers
TupleLE(a1, a2, b1, b2) == a1 < b1 \/ (a1 = b1 /\ a2 <= b2)

\* mutant of SwapFirst: timestamps compared without the priorities
SwapFirst_TieToSwap(s, d) == s.timestamp <= d.timestamp

\* mutant of SwapFirst: the two sides of the comparison exchanged
SwapFirst_Reversed(s, d) == TupleLE(d.timestamp, 0, s.timestamp, 1)

\* line 449: (swap["timestamp"], 1) <= (data["timestamp"], 0)
SwapFirst(s, d) == TupleLE(s.timestamp, 1, d.timestamp, 0)

\* decision records of the time_data frame
TimeEvent(ts) == [timestamp |-> ts, price |-> 100 + ts]

\* timestamp-sorted lists of n timestamps
SortedTimestamps(n) ==
    {s \in [1..n -> Timestamps] : \A i \in 1..n, j \in 1..n : i < j => s[i] <= s[j]}

CallRecord(fn, idx, ev) == [fn |-> fn, idx |-> idx, timestamp |-> ev.timestamp]

InitRun ==
    /\ SimInit
    /\ \E n \in 0..MaxLen : \E s \in SortedTimestamps(n) :
           swaps = [i \in 1..n |-> SwapEvent(s[i])]
    /\ \E n \in 0..MaxLen : \E s \in SortedTimestamps(n) :
           time_data = [i \in 1..n |-> TimeEvent(s[i])]
    /\ swap_events = 0
    /\ time_list = 0
    /\ swap = <<>>
    /\ data = <<>>
    /\ pc = "start"
    /\ calls = <<>>
    /\ AuxIdle

\* lines 443-447: both iterators are created and their first items fetched
RunStart ==
    /\ pc = "start"
    /\ IF Len(swaps) = 0
       THEN pc' = "StopIteration" /\ UNCHANGED <<swap_events, time_list, swap, data>>
       ELSE /\ swap' = swaps[1]
            /\ swap_events' = 1
            /\ IF Len(time_data) = 0
               THEN pc' = "StopIteration" /\ UNCHANGED <<time_list, data>>
               ELSE data' = time_data[1] /\ time_list' = 1 /\ pc' = "loop"
    /\ UNCHANGED <<simVars, last, ops, swaps, time_data, calls, auxVars>>

\* lines 449-456: the swap branch of one loop iteration
RunOnSwap ==
    /\ pc = "loop"
    /\ SwapFirst(swap, data)
    /\ OnSwap(swap)
    /\ calls' = Append(calls, CallRecord("on_swap", swap_events, swap))
    /\ IF swap_events < Len(swaps)
       THEN swap' = swaps[swap_events + 1] /\ swap_events' = swap_events + 1 /\ pc' = "loop"
       ELSE /\ pc' = IF time_list < Len(time_data) THEN "drain_time" ELSE "done"
            /\ UNCHANGED <<swap, swap_events>>
    /\ UNCHANGED <<ops, swaps, time_data, time_list, data, auxVars>>

\* lines 457-464: the decision branch of one loop iteration
RunOnTime ==
    /\ pc = "loop"
    /\ ~SwapFirst(swap, data)
    /\ calls' = Append(calls, CallRecord("on_time", time_list, data))
    /\ IF time_list < Len(time_data)
       THEN data' = time_data[time_list + 1] /\ time_list' = time_list + 1 /\ pc' = "loop"
       ELSE /\ pc' = IF swap_events < Len(swaps) THEN "drain_swap" ELSE "done"
            /\ UNCHANGED <<data, time_list>>
    /\ UNCHANGED <<simVars, last, ops, swaps, time_data, swap_events, swap, auxVars>>

\* lines 454-455: one iteration of the for loop over the rest of time_list
RunDrainTime ==
    /\ pc = "drain_time"
    /\ time_list' = time_list + 1
    /\ calls' = Append(calls, CallRecord("on_time", time_list + 1, time_data[time_list + 1]))
    /\ pc' = IF time_list + 1 < Len(time_data) THEN "drain_time" ELSE "done"
    /\ UNCHANGED <<simVars, last, ops, swaps, time_data, swap_events, swap, data,
                   auxVars>>

\* lines 462-463: one iteration of the for loop over the rest of swap_events
RunDrainSwap ==
    /\ pc = "drain_swap"
    /\ swap_events' = swap_events + 1
    /\ OnSwap(swaps[swap_events + 1])
    /\ calls' = Append(calls, CallRecord("on_swap", swap_events + 1, swaps[swap_events + 1]))
    /\ pc' = IF swap_events + 1 < Len(swaps) THEN "drain_swap" ELSE "done"
    /\ UNCHANGED <<ops, swaps, time_data, time_list, swap, data, auxVars>>

NextRun ==
    \/ RunStart
    \/ RunOnSwap
    \/ RunOnTime
    \/ RunDrainTime
    \/ RunDrainSwap

SpecRun == InitRun /\ [][NextRun]_vars

(***************************************************************************)
(* Properties.                                                             *)
(***************************************************************************)
\* a step that is a call of op (successful or not)
CallOf(op) == ops' = ops + 1 /\ last'.op = op
WalletErrors == {"AssertionError:amount0", "AssertionError:amount1"}
RegistryIds == DOMAIN positions

\* C1: both wallet balances are >= 0 in every reachable state (all amount
\* arguments of the model are non-negative).
C1_WalletNonNegative == amount0 >= 0 /\ amount1 >= 0

\* the positions at which the run() call log holds a call of fn
CallsOf(fn) == {k \in 1..Len(calls) : calls[k].fn = fn}

\* C2 (as claimed): a swap event and a decision event of the same timestamp
\* that are both dispatched are dispatched on_swap first.
C2_SwapBeforeTimeOnTie ==
    \A a \in CallsOf("on_swap"), b \in CallsOf("on_time") :
        calls[a].timestamp = calls[b].timestamp => a < b

\* C2 (amended): when the pending swap event and the pending decision event
\* have the same timestamp, run() invokes on_time for the decision event
\* next and the swap event stays pending, so that on_time comes first.
C2_TimeBeforeSwapOnTie ==
    [][(pc = "loop" /\ swap.timestamp = data.timestamp)
         => /\ calls' = Append(calls, CallRecord("on_time", time_list, data))
            /\ swap_events' = swap_events
            /\ \A k \in CallsOf("on_swap") : calls[k].idx # swap_events]_vars

C2_Witness ==
    \E a \in CallsOf("on_time"), b \in CallsOf("on_swap") :
        calls[a].timestamp = calls[b].timestamp /\ a < b

\* C3: when run() has returned on two non-empty sorted streams, every swap
\* event was passed to on_swap exactly once and every decision event to
\* on_time exactly once.
C3_EveryEventDispatchedOnce ==
    (pc = "done" /\ Len(swaps) > 0 /\ Len(time_data) > 0) =>
        /\ \A i \in 1..Len(swaps) :
               Cardinality({k \in CallsOf("on_swap") : calls[k].idx = i}) = 1
        /\ \A j \in 1..Len(time_data) :
               Cardinality({k \in CallsOf("on_time") : calls[k].idx = j}) = 1

\* C4: the calls run() makes (on_swap and on_time together, in call order)
\* have non-decreasing timestamps; the input streams are sorted.
C4_DispatchOrderSorted ==
    \A a \in 1..Len(calls), b \in 1..Len(calls) :
        a < b => calls[a].timestamp <= calls[b].timestamp

C4_Witness ==
    /\ pc = "done"
    /\ \E a \in CallsOf("on_swap"), b \in CallsOf("on_time") :
           a < b /\ calls[a].timestamp < calls[b].timestamp
    /\ \E a \in CallsOf("on_time"), b \in CallsOf("on_swap") :
           a < b /\ calls[a].timestamp < calls[b].timestamp

\* C5: an increase_liquidity that fails on the wallet assertions leaves the
\* position (liquidity, edge amounts, history and balance logs), the wallet
\* balances, valid_positions and wallet_logs as they were before the call.
C5_IncreaseFailureRollsBack ==
    [][(CallOf("increase_liquidity") /\ last'.err \in WalletErrors)
         => /\ positions' = positions
            /\ UNCHANGED <<amount0, amount1, valid_positions, wallet_logs>>]_vars

C5_Witness ==
    /\ last.op = "increase_liquidity"
    /\ last.err \in WalletErrors
    /\ last.token_id \in RegistryIds
    /\ positions[last.token_id].liquidity.n > 0
    /\ positions[last.token_id].amount0_edge > 0

\* C6: a mint asking for more than the wallet holds of either token fails on
\* the wallet assertion and changes no simulator state.
C6_MintOverWalletFails ==
    [][CallOf("mint") =>
         \/ last'.err \in WalletErrors /\ UNCHANGED simVars
         \/ \A lo \in LowerTicks, up \in UpperTicks, a0 \in Amounts0, a1 \in Amounts1 :
                ~((a0 > amount0 \/ a1 > amount1) /\ SimStep(Mint(lo, up, a0, a1)))]_vars

C6_Witness ==
    /\ last.op = "mint"
    /\ last.err \in WalletErrors
    /\ ops > 0

\* C7: a mint whose aligned tick bounds do not satisfy lower < upper fails
\* and changes no simulator state, the token-id counter included.
C7_MintBadRangeChangesNothing ==
    [][\A lo \in LowerTicks, up \in UpperTicks, a0 \in Amounts0, a1 \in Amounts1 :
          (~(AlignTick(lo) < AlignTick(up)) /\ SimStep(Mint(lo, up, a0, a1)))
            => (last'.err # "" /\ UNCHANGED simVars)]_vars

\* C8: valid_positions is exactly the set of registered positions with
\* liquidity > 0.
C8_ValidIffPositiveLiquidity ==
    valid_positions = {id \in RegistryIds : positions[id].liquidity.n > 0}

\* C9: the registry only grows: a successful mint adds exactly one entry,
\* under an id greater than every id already registered; every other step
\* keeps the set of ids; no step removes an entry or puts another position
\* under an existing id.
C9_RegistryOnlyGrows ==
    [][/\ \A id \in RegistryIds :
              /\ id \in DOMAIN positions'
              /\ positions'[id].token_id = positions[id].token_id
              /\ positions'[id].tick_lower = positions[id].tick_lower
              /\ positions'[id].tick_upper = positions[id].tick_upper
       /\ IF CallOf("mint") /\ last'.err = ""
          THEN \E id \in DOMAIN positions' :
                   /\ id \notin RegistryIds
                   /\ DOMAIN positions' = RegistryIds \cup {id}
                   /\ positions'[id].token_id = id
                   /\ \A j \in RegistryIds : id > j
          ELSE DOMAIN positions' = RegistryIds]_vars

C9_Witness ==
    /\ last.op = "mint"
    /\ last.err = ""
    /\ Cardinality(RegistryIds) >= 2

\* C10: every registered position has liquidity >= 0.
C10_LiquidityNonNegative ==
    \A id \in RegistryIds : positions[id].liquidity.n >= 0

\* C11: a position's uncollected fee0 and fee1 never decrease from one state
\* to the next except in a collect of that position, and every fee pair that
\* on_swap obtains from PositionInstance.swap (the pair it logs) is >= 0 in
\* both components.
C11_FeesMonotone ==
    [][/\ \A id \in RegistryIds :
              \/ CallOf("collect") /\ last'.token_id = id
              \/ /\ positions'[id].fee0 >= positions[id].fee0
                 /\ positions'[id].fee1 >= positions[id].fee1
       /\ CallOf("on_swap") =>
              \A id \in valid_positions :
                  LET b == positions'[id].balance
                  IN  b[Len(b)].fee0 >= 0 /\ b[Len(b)].fee1 >= 0]_vars

C13_FullDecreaseCloses ==
    [][CallOf("decrease_liquidity") =>
         \A id \in RegistryIds :
          (positions[id].liquidity.n > 0
             /\ SimStep(DecreaseLiquidity(id, 0, Rat(1, 1))))
            => /\ last'.err = ""
               /\ id \in DOMAIN positions'
               /\ positions'[id].liquidity.n = 0
               /\ \A psqrt \in SqrtPrices : ~is_active(positions'[id], psqrt)
               /\ id \notin valid_positions']_vars

\* a position that had liquidity > 0 in range of the current price was closed
\* by the latest call
C13_Witness ==
    /\ last.op = "decrease_liquidity"
    /\ last.err = ""
    /\ last.token_id \in RegistryIds
    /\ LET p == positions[last.token_id]
       IN  /\ p.liquidity.n = 0
           /\ Len(p.history) >= 2
           /\ p.history[Len(p.history) - 1].liquidity.n > 0
           /\ p.low_price_sqrt <= sqrt_price
           /\ sqrt_price <= p.high_price_sqrt
    /\ last.token_id \notin valid_positions

\* C14 (as claimed): a registered position that is not in valid_positions (it
\* was closed) is not in valid_positions after any step.
C14_ClosedNeverValidAgain ==
    [][\A id \in RegistryIds :
          id \notin valid_positions => id \notin valid_positions']_vars

\* C14 (amended): a closed position is in valid_positions after a step if and
\* only if the step is a successful increase_liquidity on its token id.
C14_ClosedUntilIncrease ==
    [][\A id \in RegistryIds :
          id \notin valid_positions =>
              (id \in valid_positions'
                 <=> (CallOf("increase_liquidity") /\ last'.err = ""
                        /\ last'.token_id = id))]_vars

\* a position that was closed is valid again after an increase_liquidity
C14_Witness ==
    /\ last.op = "increase_liquidity"
    /\ last.err = ""
    /\ last.token_id \in valid_positions
    /\ LET h == positions[last.token_id].history
       IN  /\ Len(h) >= 3
           /\ h[Len(h) - 1].liquidity.n = 0
           /\ h[Len(h)].liquidity.n > 0

\* C15 (as claimed): a swap given neither amount nor pct, or given both,
\* fails and changes no simulator state.
C15_SwapNeedsExactlyOne ==
    [][\A t \in {0, 1}, a \in SwapArgs :
          (((a[1] = 0) = (a[2].n = 0)) /\ SimStep(Swap(t, a[1], a[2])))
            => (last'.err # "" /\ UNCHANGED simVars)]_vars

\* C15 (amended): a swap given neither amount nor pct fails with ValueError
\* and changes no simulator state; a swap given both does not fail on its
\* arguments: it does what the same swap with the amount alone does.
C15_SwapNeedsAtLeastOne ==
    [][CallOf("swap") =>
         \A t \in {0, 1}, a \in SwapArgs :
          SimStep(Swap(t, a[1], a[2])) =>
              /\ (a[1] = 0 /\ a[2].n = 0)
                   => (last'.err = "ValueError" /\ UNCHANGED simVars)
              /\ (a[1] # 0 /\ a[2].n # 0)
                   => (last'.err # "ValueError"
                         /\ SimStep(Swap(t, a[1], Rat(0, 1))))]_vars

\* swap(0, amount=40, pct=1/2) went through on a wallet of 200: 40 were
\* debited, not half of the holding
C15_Witness ==
    /\ last.op = "swap"
    /\ last.err = ""
    /\ ops = 2
    /\ positions = <<>>
    /\ amount0 = 200 - TotalAmount(40)

\* C16: a swap of a positive amount at a non-zero price is rejected, with both
\* wallet balances unchanged, exactly when its fee-inclusive debit
\* int(amount*(1 + fee/1e6)) exceeds the wallet's balance of the input token;
\* a debit up to and including that balance is accepted and debited.
C16_SwapAcceptsDebitUpToBalance ==
    [][\A t \in {0, 1}, a \in SwapArgs :
          LET holding == IF t = 1 THEN amount1 ELSE amount0
              amount  == IF a[1] # 0 THEN a[1] ELSE Trunc(holding * a[2].n, a[2].d)
          IN  (sqrt_price # 0 /\ amount > 0 /\ SimStep(Swap(t, a[1], a[2])))
                => IF TotalAmount(amount) > holding
                   THEN last'.err # "" /\ UNCHANGED <<amount0, amount1>>
                   ELSE /\ last'.err = ""
                        /\ (IF t = 1 THEN amount1' ELSE amount0')
                             = holding - TotalAmount(amount)]_vars

\* C17: after the consecutive successful calls mint(..) -> id,
\* decrease_liquidity(id, pct=1) and collect(id), with no on_swap between
\* them, both wallet balances are what they were before the mint.
C17_MintCloseCollectRoundTrip ==
    /\ trail.stage \in {2, 3} => (amount0 = trail.amount0 /\ amount1 = trail.amount1)
    /\ trail.stage = 3 => (last.op = "collect" /\ last.amt0 = 0 /\ last.amt1 = 0)

\* the sequence was completed on a position minted inside its range, which
\* took both tokens
C17_Witness ==
    /\ trail.stage = 3
    /\ last.op = "collect"
    /\ sqrt_price # 0
    /\ positions[trail.token_id].low_price_sqrt < sqrt_price
    /\ sqrt_price < positions[trail.token_id].high_price_sqrt
    /\ positions[trail.token_id].balance[1].amount0 > 0
    /\ positions[trail.token_id].balance[1].amount1 > 0

\* the step appended h entries to the history log and b entries to the
\* balance log of position id
Appended(id, h, b) ==
    /\ id \in DOMAIN positions'
    /\ Len(positions'[id].history)
         = (IF id \in RegistryIds THEN Len(positions[id].history) ELSE 0) + h
    /\ Len(positions'[id].balance)
         = (IF id \in RegistryIds THEN Len(positions[id].balance) ELSE 0) + b

\* the latest call was a successful op on position id
Succeeded(op, id) == CallOf(op) /\ last'.err = "" /\ last'.token_id = id

\* C18 (as claimed): every successful mint, increase_liquidity,
\* decrease_liquidity and collect, and every on_swap for each position it
\* accrues fees to, appends exactly one entry to the position's history log
\* and exactly one entry to its balance log.
C18_OneHistoryOneBalance ==
    [][/\ \A id \in DOMAIN positions' :
              (\/ Succeeded("mint", id)
               \/ Succeeded("increase_liquidity", id)
               \/ Succeeded("decrease_liquidity", id)
               \/ Succeeded("collect", id)) => Appended(id, 1, 1)
       /\ CallOf("on_swap") => \A id \in valid_positions : Appended(id, 1, 1)]_vars

\* C18 (amended): a successful mint or increase_liquidity appends one history
\* entry and one balance entry; a successful decrease_liquidity appends one
\* history entry and no balance entry; collect, and on_swap for each position
\* in valid_positions, append one balance entry and no history entry; the
\* logs of every other position are left as they were.
C18_LogsPerOperation ==
    [][/\ \A id \in DOMAIN positions' :
              IF Succeeded("mint", id) \/ Succeeded("increase_liquidity", id)
              THEN Appended(id, 1, 1)
              ELSE IF Succeeded("decrease_liquidity", id) THEN Appended(id, 1, 0)
              ELSE IF Succeeded("collect", id) THEN Appended(id, 0, 1)
              ELSE IF CallOf("on_swap") /\ id \in valid_positions
              THEN Appended(id, 0, 1)
              ELSE Appended(id, 0, 0)]_vars

\* a position that went through mint, decrease_liquidity and collect, or
\* through mint, decrease_liquidity and on_swap
C18_Witness ==
    /\ last.op \in {"collect", "on_swap"}
    /\ \E id \in RegistryIds :
           /\ Len(positions[id].history) = 2
           /\ Len(positions[id].balance) = 2
           /\ positions[id].history[2].liquidity.n > 0
           /\ positions[id].history[2].liquidity.n
                < positions[id].history[1].liquidity.n

\* C19: mint, increase_liquidity, decrease_liquidity, collect and swap,
\* whether they succeed or fail, leave block_number, timestamp, tick,
\* sqrt_price_x96, sqrt_price and L unchanged: only on_swap and init change
\* them.
C19_ClockChangedOnlyBySwapEvents ==
    [][/\ (\E op \in {"mint", "increase_liquidity", "decrease_liquidity",
                       "collect", "swap"} : CallOf(op))
            => UNCHANGED <<block_number, timestamp, tick, sqrt_price_x96,
                           sqrt_price, L>>
       /\ <<block_number, timestamp, tick, sqrt_price_x96, sqrt_price, L>>'
            # <<block_number, timestamp, tick, sqrt_price_x96, sqrt_price, L>>
            => (CallOf("on_swap") \/ CallOf("init"))]_vars

\* the wallet traded after the pool clock was set, and the clock still shows
\* the event that set it
C19_Witness ==
    /\ last.op = "swap"
    /\ last.err = ""
    /\ last.amt0 + last.amt1 > 0
    /\ \E ev \in SwapEvents :
           /\ block_number = ev.blockNumber
           /\ timestamp = ev.timestamp
           /\ tick = ev.tick
           /\ sqrt_price_x96 = ev.sqrtPriceX96
           /\ sqrt_price = ev.sqrtPriceX96
           /\ L = ev.liquidity

\* C20: cal_liquidity_sqrt and cal_liquidity fail on their assertion, and
\* return nothing, when the amount their case needs is 0 or None: amt0 when
\* price <= lower, amt1 when price > upper, and amt0 and amt1 both when
\* lower < price <= upper (there one non-zero amount is enough).
C20_SizingNeedsRegionAmount ==
    LET err == IF calc.sqrt_price <= calc.sqrt_lower
               THEN IF calc.amt0 = 0 THEN "AssertionError:amt0" ELSE ""
               ELSE IF calc.sqrt_price <= calc.sqrt_upper
               THEN IF calc.amt0 = 0 /\ calc.amt1 = 0
                    THEN "AssertionError:amt0 or amt1" ELSE ""
               ELSE IF calc.amt1 = 0 THEN "AssertionError:amt1" ELSE ""
    IN  err # "" =>
          /\ "cal_liquidity_sqrt" \in calc.ran => calc.by_sqrt = CalFail(err)
          /\ "cal_liquidity" \in calc.ran => calc.by_price = CalFail(err)

\* both functions were called above the range with amt0 > 0 and amt1 = 0,
\* and both failed
C20_Witness ==
    /\ calc.ran = {"cal_liquidity_sqrt", "cal_liquidity"}
    /\ calc.sqrt_price > calc.sqrt_upper
    /\ calc.amt0 > 0
    /\ calc.amt1 = 0
    /\ calc.by_sqrt.err = "AssertionError:amt1"
    /\ calc.by_price.err = "AssertionError:amt1"

\* C21: for lower < price <= upper and at least one amount > 0, both sizing
\* functions return a result; its liquidity is min(L0, L1), a zero or absent
\* side counting as infinite, and the amount of the side that does not bind
\* is recomputed from that liquidity and truncated.
C21_InRangeSizing ==
    LET sp == calc.sqrt_price
        sl == calc.sqrt_lower
        su == calc.sqrt_upper
        L0 == IF calc.amt0 = 0 THEN Inf
              ELSE Trunc(calc.amt0 * su * sp, PRICE_FACTOR * (su - sp))
        L1 == IF calc.amt1 = 0 THEN Inf
              ELSE Trunc(calc.amt1 * PRICE_FACTOR, sp - sl)
        Returned(r) ==
            /\ r.err = ""
            /\ r.l = (IF L0 < L1 THEN L0 ELSE L1)
            /\ IF L0 < L1
               THEN r.amt0 = calc.amt0 /\ r.amt1 = Trunc(r.l * (sp - sl), PRICE_FACTOR)
               ELSE r.amt1 = calc.amt1
                      /\ r.amt0 = Trunc(r.l * PRICE_FACTOR * (su - sp), su * sp)
    IN  (sl < sp /\ sp <= su /\ (calc.amt0 > 0 \/ calc.amt1 > 0)) =>
          /\ "cal_liquidity_sqrt" \in calc.ran => Returned(calc.by_sqrt)
          /\ "cal_liquidity" \in calc.ran => Returned(calc.by_price)

(***************************************************************************)
(* Round trip through the owed amounts.                                    *)
(***************************************************************************)
\* the round trip cal_liquidity(1.0001 ** t, upper, lower, amount0_t(t), amount1_t(t))
\* was made on a position with positive liquidity
RoundTripped == calc.op = "cal_liquidity" /\ calc.position.liquidity.n > 0

C23_PriceToTickIsFloor ==
    calc.op = "price_to_tick" => calc.tick_out = calc.log2_dex \div 2

(***************************************************************************)
(* on_swap and the fee logs.                                               *)
(***************************************************************************)
\* log' is log with exactly one entry appended
OneAppended(log, log2) ==
    /\ Len(log2) = Len(log) + 1
    /\ SubSeq(log2, 1, Len(log)) = log

\* C24: on_swap changes neither wallet balance, no position's liquidity, and
\* neither the registry nor valid_positions membership; besides the pool
\* clock its only effects are: for each position in valid_positions a fee
\* accrual and exactly one appended balance-log entry carrying that call's
\* fee increment, nothing at all for a position outside valid_positions, and
\* exactly one appended wallet snapshot.
C24_OnSwapFrame ==
    [][CallOf("on_swap") =>
          /\ UNCHANGED <<amount0, amount1, valid_positions, next_token_id, fee>>
          /\ DOMAIN positions' = RegistryIds
          /\ OneAppended(wallet_logs, wallet_logs')
          /\ \A id \in RegistryIds :
                 LET p == positions[id]
                     q == positions'[id]
                 IN  IF id \in valid_positions
                     THEN /\ q.liquidity = p.liquidity
                          /\ OneAppended(p.balance, q.balance)
                          /\ q.balance[Len(q.balance)].fee0 = q.fee0 - p.fee0
                          /\ q.balance[Len(q.balance)].fee1 = q.fee1 - p.fee1
                          /\ [q EXCEPT !.fee0 = p.fee0, !.fee1 = p.fee1,
                                       !.balance = p.balance] = p
                     ELSE q = p]_vars

\* an on_swap that accrued a fee to a valid position while a closed position
\* is registered
C24_Witness ==
    /\ last.op = "on_swap"
    /\ RegistryIds \ valid_positions # {}
    /\ \E id \in valid_positions :
           LET p == positions[id]
           IN  /\ Len(p.balance) >= 2
               /\ p.balance[Len(p.balance)].fee0 + p.balance[Len(p.balance)].fee1 > 0

\* the sums of the fee0 and of the fee1 fields over a balance log
RECURSIVE SumFee0(_)
SumFee0(log) == IF log = <<>> THEN 0 ELSE log[1].fee0 + SumFee0(Tail(log))
RECURSIVE SumFee1(_)
SumFee1(log) == IF log = <<>> THEN 0 ELSE log[1].fee1 + SumFee1(Tail(log))

\* C25: in every reachable state, for every registered position the sum of
\* the fee0 fields over all entries of its balance log equals its current
\* uncollected fee0, and likewise for fee1.
C25_LoggedFeesSumToUncollected ==
    \A id \in RegistryIds :
        /\ SumFee0(positions[id].balance) = positions[id].fee0
        /\ SumFee1(positions[id].balance) = positions[id].fee1

\* a position that earned a fee, was collected, and earned a fee again
C25_Witness ==
    \E id \in RegistryIds :
        LET b == positions[id].balance
        IN  /\ positions[id].fee0 + positions[id].fee1 > 0
            /\ \E k \in 1..Len(b) : b[k].fee0 < 0 \/ b[k].fee1 < 0

(***************************************************************************)
(* PositionInstance.swap on its own.                                       *)
(***************************************************************************)
\* C26: a single Position.swap(from_sqrt_price, to_sqrt_price) changes at most
\* one fee counter: when to > from only fee1 may change, when to <= from only
\* fee0 may change; the returned pair is the increment applied in this call,
\* not the running total; liquidity and everything else are unchanged.
C26_SwapTouchesOneCounter ==
    calc.op = "swap" =>
        LET p == calc.position
            q == calc.after
        IN  /\ IF calc.to > calc.from
               THEN q.fee0 = p.fee0 /\ calc.fee0 = 0
               ELSE q.fee1 = p.fee1 /\ calc.fee1 = 0
            /\ calc.fee0 = q.fee0 - p.fee0
            /\ calc.fee1 = q.fee1 - p.fee1
            /\ q.liquidity = p.liquidity
            /\ [q EXCEPT !.fee0 = p.fee0, !.fee1 = p.fee1] = p

\* an upward move that added to a non-zero fee1 counter
C26_Witness ==
    /\ calc.op = "swap"
    /\ calc.to > calc.from
    /\ calc.position.fee1 > 0
    /\ calc.fee1 > 0
    /\ calc.after.fee1 = calc.position.fee1 + calc.fee1

\* the price move of the call lies entirely on one side of the position's range
MoveOutsideRange ==
    \/ calc.from <= calc.position.low_price_sqrt
         /\ calc.to <= calc.position.low_price_sqrt
    \/ calc.from >= calc.position.high_price_sqrt
         /\ calc.to >= calc.position.high_price_sqrt

\* C30: a position accrues no fee from a price move that lies entirely
\* outside its range: if from_sqrt_price and to_sqrt_price are both <=
\* sqrt(lower) or both >= sqrt(upper), Position.swap returns (0, 0) and leaves
\* fee0 and fee1 unchanged.
C30_NoFeeOutsideRange ==
    (calc.op = "swap" /\ MoveOutsideRange) =>
        /\ calc.fee0 = 0
        /\ calc.fee1 = 0
        /\ calc.after.fee0 = calc.position.fee0
        /\ calc.after.fee1 = calc.position.fee1

\* a real move above the range of a position whose liquidity earns fees
\* inside the range
C30_Witness ==
    /\ calc.op = "swap"
    /\ calc.position.liquidity.n >= 200
    /\ calc.from >= calc.position.high_price_sqrt
    /\ calc.to > calc.from
    /\ position_swap(calc.position, calc.position.low_price_sqrt,
                     calc.position.high_price_sqrt).fee1 > 0

(***************************************************************************)
(* The wallet log.                                                         *)
(***************************************************************************)
\* C27: after every successful operation that changes a wallet balance
\* (mint, increase_liquidity, decrease_liquidity, collect, and the wallet's
\* own swap), the most recent entry of wallet_logs carries the wallet's
\* current amount0 and amount1.
C27_WalletLogCurrent ==
    (/\ last.op \in {"mint", "increase_liquidity", "decrease_liquidity",
                     "collect", "swap"}
     /\ last.err = "") =>
        /\ Len(wallet_logs) > 0
        /\ wallet_logs[Len(wallet_logs)].amount0 = amount0
        /\ wallet_logs[Len(wallet_logs)].amount1 = amount1

(***************************************************************************)
(* run() on empty streams.                                                 *)
(***************************************************************************)
\* C28: run() terminates normally (returns without raising) for every pair of
\* finite timestamp-sorted streams, including when the swap stream or the
\* decision stream is empty, in which case all events of the other stream
\* are still dispatched: run() never ends in StopIteration, and a run on an
\* empty stream that has ended has dispatched every event of the other one.
C28_RunReturnsNormally ==
    /\ pc # "StopIteration"
    /\ (pc \in {"done", "StopIteration"} /\ (swaps = <<>> \/ time_data = <<>>)) =>
           Len(calls) = Len(swaps) + Len(time_data)

(***************************************************************************)
(* Token conservation.                                                     *)
(***************************************************************************)
\* what the positions ids of registry ps hold of token0 at sqrt price psqrt:
\* the owed amount plus the uncollected fee
RECURSIVE Held0(_, _, _)
Held0(ps, ids, psqrt) ==
    IF ids = {} THEN 0
    ELSE LET id == CHOOSE i \in ids : TRUE
         IN  amount0_psqrt(ps[id], psqrt) + ps[id].fee0 + Held0(ps, ids \ {id}, psqrt)
RECURSIVE Held1(_, _, _)
Held1(ps, ids, psqrt) ==
    IF ids = {} THEN 0
    ELSE LET id == CHOOSE i \in ids : TRUE
         IN  amount1_psqrt(ps[id], psqrt) + ps[id].fee1 + Held1(ps, ids \ {id}, psqrt)

\* the step is a successful call of one of ops
SucceededOneOf(names) ==
    ops' = ops + 1 /\ last'.op \in names /\ last'.err = ""

\* C29: a successful mint, increase_liquidity, decrease_liquidity or collect
\* leaves, for each token, wallet amount + sum over all registered positions
\* of (owed amount at the current sqrt price + uncollected fee) exactly
\* unchanged, and the amounts the operation returns are the wallet's change
\* (a debit for mint and increase_liquidity, a credit for the other two).
C29_TokensConserved ==
    [][SucceededOneOf({"mint", "increase_liquidity", "decrease_liquidity", "collect"}) =>
          /\ sqrt_price' = sqrt_price
          /\ amount0' + Held0(positions', DOMAIN positions', sqrt_price)
               = amount0 + Held0(positions, DOMAIN positions, sqrt_price)
          /\ amount1' + Held1(positions', DOMAIN positions', sqrt_price)
               = amount1 + Held1(positions, DOMAIN positions, sqrt_price)
          /\ IF last'.op \in {"mint", "increase_liquidity"}
             THEN amount0 - amount0' = last'.amt0 /\ amount1 - amount1' = last'.amt1
             ELSE amount0' - amount0 = last'.amt0 /\ amount1' - amount1 = last'.amt1]_vars

\* a successful increase_liquidity inside the range, which took both tokens
C29_Witness ==
    /\ last.op = "increase_liquidity"
    /\ last.err = ""
    /\ last.amt0 > 0
    /\ last.amt1 > 0

====
